---- MODULE Spec2Model ----
(***************************************************************************)
(* Model of the multi-source company data aggregator                       *)
(* (src/data_aggregator.py): CompanyDataAggregator.get_comprehensive_data, *)
(* _merge_data_sources and _calculate_derived_metrics.                     *)
(*                                                                         *)
(* Python values are modelled as one-field records whose field name is the *)
(* Python type: [int |-> 3], [float |-> 3] (a float with an integral       *)
(* value), [str |-> <<"a", "b">>] (a string is its sequence of             *)
(* characters), [list |-> <<...>>], [dict |-> f], [none |-> TRUE], and     *)
(* [unordered |-> S] for a list built by list(set(...)), whose order the   *)
(* interpreter does not fix.  A Python dict is a function from its keys.   *)
(***************************************************************************)
EXTENDS Integers, Sequences, FiniteSets, TLC

VARIABLES pc, company_name, progress_callback, i, all_data, scraped_sources,
          successful_sources, calls, returned, progress, clock, result, run_year,
          queries, sessions, closes, scope, max_retries, gets, navigated

\* the state of the collectors themselves
collector_vars == <<queries, sessions, closes, scope, max_retries, gets, navigated>>

vars == <<pc, company_name, progress_callback, i, all_data, scraped_sources,
          successful_sources, calls, returned, progress, clock, result, run_year,
          collector_vars>>

(***************************************************************************)
(* Bounds of the model.                                                    *)
(***************************************************************************)
\* positive amounts a source may report in the merge specifications: 1..MaxAmount
MaxAmount == 2

\* the last calendar year in which a run may take place
LastRunYear == 2026

(***************************************************************************)
(* Python values.                                                          *)
(***************************************************************************)
PInt(n) == [int |-> n]
PFloat(n) == [float |-> n]
PStr(s) == [str |-> s]
PList(l) == [list |-> l]
PDict(d) == [dict |-> d]
PNone == [none |-> TRUE]
PUnordered(S) == [unordered |-> S]

EmptyDict == <<>>

Tag(v) == CHOOSE t \in DOMAIN v : TRUE

IsInt(v) == Tag(v) = "int"
IsStr(v) == Tag(v) = "str"
IsList(v) == Tag(v) = "list"
IsDict(v) == Tag(v) = "dict"
IsNone(v) == Tag(v) = "none"
\* isinstance(value, (int, float))
IsNumber(v) == Tag(v) \in {"int", "float"}

Num(v) == IF Tag(v) = "int" THEN v.int ELSE v.float

\* Python truth value of an object
Truthy(v) ==
    CASE Tag(v) = "int" -> v.int # 0
      [] Tag(v) = "float" -> v.float # 0
      [] Tag(v) = "str" -> Len(v.str) > 0
      [] Tag(v) = "list" -> Len(v.list) > 0
      [] Tag(v) = "dict" -> DOMAIN v.dict # {}
      [] Tag(v) = "unordered" -> v.unordered # {}
      [] Tag(v) = "none" -> FALSE

Whitespace == {" ", "\t", "\n"}

RECURSIVE LStrip(_)
LStrip(s) == IF s # <<>> /\ Head(s) \in Whitespace THEN LStrip(Tail(s)) ELSE s

RECURSIVE RStrip(_)
RStrip(s) == IF s # <<>> /\ s[Len(s)] \in Whitespace
             THEN RStrip(SubSeq(s, 1, Len(s) - 1)) ELSE s

\* str.strip()
Strip(s) == RStrip(LStrip(s))

\* str.startswith(prefix)
StartsWith(s, prefix) ==
    Len(s) >= Len(prefix) /\ SubSeq(s, 1, Len(prefix)) = prefix

Range(s) == {s[k] : k \in DOMAIN s}

\* d[k] = v on a dict
Put(d, k, v) == [x \in DOMAIN d \cup {k} |-> IF x = k THEN v ELSE d[x]]

\* d.get(k, default)
Get(d, k, default) == IF k \in DOMAIN d THEN d[k] ELSE default

\* the characters of the string literals of the code
Chars(w) ==
    CASE w = "http" ->
           <<"h", "t", "t", "p">>
      [] w = "None" ->
           <<"N", "o", "n", "e">>
      [] w = "No data found" ->
           <<"N", "o", " ", "d", "a", "t", "a", " ", "f", "o", "u", "n", "d">>
      [] w = "Acme" ->
           <<"A", "c", "m", "e">>
      [] w = "Pre-Seed" ->
           <<"P", "r", "e", "-", "S", "e", "e", "d">>
      [] w = "Seed" ->
           <<"S", "e", "e", "d">>
      [] w = "Series A" ->
           <<"S", "e", "r", "i", "e", "s", " ", "A">>
      [] w = "Series B" ->
           <<"S", "e", "r", "i", "e", "s", " ", "B">>
      [] w = "Series C+" ->
           <<"S", "e", "r", "i", "e", "s", " ", "C", "+">>
      [] w = "Late Stage" ->
           <<"L", "a", "t", "e", " ", "S", "t", "a", "g", "e">>
      [] w = "Startup (1-9)" ->
           <<"S", "t", "a", "r", "t", "u", "p", " ", "(", "1", "-", "9", ")">>
      [] w = "Small (10-49)" ->
           <<"S", "m", "a", "l", "l", " ", "(", "1", "0", "-", "4", "9", ")">>
      [] w = "Medium (50-199)" ->
           <<"M", "e", "d", "i", "u", "m", " ", "(", "5", "0", "-", "1", "9", "9", ")">>
      [] w = "Large (200-999)" ->
           <<"L", "a", "r", "g", "e", " ", "(", "2", "0", "0", "-", "9", "9", "9", ")">>
      [] w = "Enterprise (1000+)" ->
           <<"E", "n", "t", "e", "r", "p", "r", "i", "s", "e", " ", "(", "1", "0", "0", "0", "+", ")">>
      [] w = "'NoneType' object has no attribute 'get'" ->
           <<"'", "N", "o", "n", "e", "T", "y", "p", "e", "'", " ", "o", "b", "j", "e", "c", "t", " ", "h", "a", "s", " ", "n", "o", " ", "a", "t", "t", "r", "i", "b", "u", "t", "e", " ", "'", "g", "e", "t", "'">>
      [] w = "-" ->
           <<"-">>
      [] w = "DuckDuckGo search redirected or blocked" ->
           <<"D", "u", "c", "k", "D", "u", "c", "k", "G", "o", " ", "s", "e", "a", "r", "c", "h", " ", "r", "e", "d", "i", "r", "e", "c", "t", "e", "d", " ", "o", "r", " ", "b", "l", "o", "c", "k", "e", "d">>
      [] w = "No Crunchbase page found for this company" ->
           <<"N", "o", " ", "C", "r", "u", "n", "c", "h", "b", "a", "s", "e", " ", "p", "a", "g", "e", " ", "f", "o", "u", "n", "d", " ", "f", "o", "r", " ", "t", "h", "i", "s", " ", "c", "o", "m", "p", "a", "n", "y">>
      [] w = "No LinkedIn company page found for this company" ->
           <<"N", "o", " ", "L", "i", "n", "k", "e", "d", "I", "n", " ", "c", "o", "m", "p", "a", "n", "y", " ", "p", "a", "g", "e", " ", "f", "o", "u", "n", "d", " ", "f", "o", "r", " ", "t", "h", "i", "s", " ", "c", "o", "m", "p", "a", "n", "y">>
      [] w = ".0" ->
           <<".", "0">>
      [] w = "crunchbase" ->
           <<"c", "r", "u", "n", "c", "h", "b", "a", "s", "e">>
      [] w = "linkedin" ->
           <<"l", "i", "n", "k", "e", "d", "i", "n">>
      [] w = "web_search" ->
           <<"w", "e", "b", "_", "s", "e", "a", "r", "c", "h">>
      [] w = "simple_web" ->
           <<"s", "i", "m", "p", "l", "e", "_", "w", "e", "b">>
      [] w = "Scraping " ->
           <<"S", "c", "r", "a", "p", "i", "n", "g", " ">>
      [] w = "..." ->
           <<".", ".", ".">>

Lit(w) == PStr(Chars(w))

(***************************************************************************)
(* _merge_data_sources                                                     *)
(***************************************************************************)
\* for source in data_sources: the mapping's own key order decides
source_priority_AsInserted == scraped_sources

\* Priority order for data sources (higher priority first)
source_priority == <<"crunchbase", "linkedin", "web_search", "simple_web">>

\* source in data_sources and field in data_sources[source]
HasField(data_sources, source, field) ==
    source \in DOMAIN data_sources /\ field \in DOMAIN data_sources[source]

\* value and isinstance(value, (int, float)) and value > 0
PositiveNumber(value) == Truthy(value) /\ IsNumber(value) /\ Num(value) > 0

\* x and isinstance(x, list)
NonEmptyList(x) == Truthy(x) /\ IsList(x)

\* x and isinstance(x, str) and x.strip()
NonBlankStr(x) == Truthy(x) /\ IsStr(x) /\ Strip(x.str) # <<>>

\* year and isinstance(year, int) and year > 1900
ValidYear(year) == Truthy(year) /\ IsInt(year) /\ year.int > 1900

\* website and isinstance(website, str) and website.strip()
\*   and website.startswith('http')
ValidWebsite(website) ==
    NonBlankStr(website) /\ StartsWith(website.str, Chars("http"))

\* the test a merge block applies to a source's value
Passes(test, value) ==
    CASE test = "number" -> PositiveNumber(value)
      [] test = "list" -> NonEmptyList(value)
      [] test = "str" -> NonBlankStr(value)
      [] test = "year" -> ValidYear(value)
      [] test = "website" -> ValidWebsite(value)

\* the values of field, in priority order, that pass the block's test
Candidates(data_sources, field, test) ==
    LET n == Len(source_priority)
        F[k \in 0..n] ==
            IF k = 0 THEN <<>>
            ELSE IF /\ HasField(data_sources, source_priority[k], field)
                    /\ Passes(test, data_sources[source_priority[k]][field])
                 THEN Append(F[k - 1], data_sources[source_priority[k]][field])
                 ELSE F[k - 1]
    IN F[n]

\* values[0] instead of max(values): the highest-priority source wins
PyMax_First(values) == values[1]

\* max(values): the first of the greatest elements
PyMax(values) ==
    LET F[k \in 1..Len(values)] ==
            IF k = 1 THEN values[1]
            ELSE IF Num(values[k]) > Num(F[k - 1]) THEN values[k] ELSE F[k - 1]
    IN F[Len(values)]

\* funding_raised also read from the key total_funding
MergeHighest_TotalFunding(merged, data_sources, field) ==
    LET values == Candidates(data_sources, field, "number")
                  \o (IF field = "funding_raised"
                      THEN Candidates(data_sources, "total_funding", "number")
                      ELSE <<>>)
    IN IF values # <<>> THEN Put(merged, field, PyMax(values)) ELSE merged

\* funding_raised, valuation, employees, revenue: take highest value
MergeHighest(merged, data_sources, field) ==
    LET values == Candidates(data_sources, field, "number")
    IN IF values # <<>> THEN Put(merged, field, PyMax(values)) ELSE merged

\* all_x.extend(x) over the sources in priority order
Extended(data_sources, field) ==
    LET lists == Candidates(data_sources, field, "list")
        F[k \in 0..Len(lists)] ==
            IF k = 0 THEN <<>> ELSE F[k - 1] \o lists[k].list
    IN F[Len(lists)]

\* [f for f in all_founders if f]: the names kept as a list, set() left out
MergeUnique_Concatenated(merged, data_sources, field) ==
    LET all == Extended(data_sources, field)
    IN IF all # <<>>
       THEN Put(merged, field, PList(SelectSeq(all, Truthy)))
       ELSE merged

\* founders, investors: list(set([f for f in all_founders if f]))
MergeUnique(merged, data_sources, field) ==
    LET all == Extended(data_sources, field)
    IN IF all # <<>>
       THEN Put(merged, field, PUnordered({f \in Range(all) : Truthy(f)}))
       ELSE merged

\* ceo, location: first non-empty value, stripped
MergeFirstStr(merged, data_sources, field) ==
    LET values == Candidates(data_sources, field, "str")
    IN IF values # <<>> THEN Put(merged, field, PStr(Strip(values[1].str)))
       ELSE merged

\* the last valid year instead of the first: priority reversed
MergeFoundedYear_Last(merged, data_sources) ==
    LET values == Candidates(data_sources, "founded_year", "year")
    IN IF values # <<>> THEN Put(merged, "founded_year", values[Len(values)]) ELSE merged

MergeFoundedYear(merged, data_sources) ==
    LET values == Candidates(data_sources, "founded_year", "year")
    IN IF values # <<>> THEN Put(merged, "founded_year", values[1]) ELSE merged

\* descriptions[0]: the highest-priority description
Longest_First(descriptions) == descriptions[1]

\* max(descriptions, key=len): the first of the longest
Longest(descriptions) ==
    LET F[k \in 1..Len(descriptions)] ==
            IF k = 1 THEN descriptions[1]
            ELSE IF Len(descriptions[k]) > Len(F[k - 1])
                 THEN descriptions[k] ELSE F[k - 1]
    IN F[Len(descriptions)]

MergeDescription(merged, data_sources) ==
    LET values == Candidates(data_sources, "description", "str")
        descriptions == [k \in 1..Len(values) |-> Strip(values[k].str)]
    IN IF descriptions # <<>>
       THEN Put(merged, "description", PStr(Longest(descriptions)))
       ELSE merged

MergeWebsite(merged, data_sources) ==
    LET values == Candidates(data_sources, "website", "website")
    IN IF values # <<>> THEN Put(merged, "website", PStr(Strip(values[1].str)))
       ELSE merged

RECURSIVE Digits(_)
Digits(n) ==
    LET d == <<"0", "1", "2", "3", "4", "5", "6", "7", "8", "9">>
    IN IF n < 10 THEN <<d[n + 1]>> ELSE Digits(n \div 10) \o <<d[(n % 10) + 1]>>

\* the text an f-string substitutes for a value
Format(v) ==
    CASE Tag(v) = "str" -> v.str
      [] Tag(v) = "none" -> Chars("None")
      [] Tag(v) = "int" ->
           IF v.int < 0 THEN Chars("-") \o Digits(0 - v.int) ELSE Digits(v.int)
      [] Tag(v) = "float" ->
           (IF v.float < 0 THEN Chars("-") \o Digits(0 - v.float)
            ELSE Digits(v.float)) \o Chars(".0")

\* f"{round_data.get('amount', '')}-{round_data.get('type', '')}"
round_key(round_data) ==
    Format(Get(round_data.dict, "amount", PStr(<<>>))) \o Chars("-")
        \o Format(Get(round_data.dict, "type", PStr(<<>>)))

\* Remove duplicate rounds based on amount and type
UniqueRounds(all_rounds) ==
    LET F[k \in 0..Len(all_rounds)] ==
            IF k = 0 THEN [unique_rounds |-> <<>>, seen_rounds |-> {}]
            ELSE LET prev == F[k - 1]
                     round_data == all_rounds[k]
                 IN IF IsDict(round_data) /\ round_key(round_data) \notin prev.seen_rounds
                    THEN [unique_rounds |-> Append(prev.unique_rounds, round_data),
                          seen_rounds |-> prev.seen_rounds \cup {round_key(round_data)}]
                    ELSE prev
    IN F[Len(all_rounds)].unique_rounds

MergeFundingRounds(merged, data_sources) ==
    LET all_rounds == Extended(data_sources, "funding_rounds")
    IN IF all_rounds # <<>>
       THEN Put(merged, "funding_rounds", PList(UniqueRounds(all_rounds)))
       ELSE merged

(***************************************************************************)
(* _calculate_derived_metrics                                              *)
(***************************************************************************)
current_year == 2024

\* the calendar years in which a run may take place; no code reads the date
RunYears == current_year..LastRunYear

\* data.get(key) is truthy
Present(data, key) == key \in DOMAIN data /\ Truthy(data[key])

\* the stage thresholds with the Seed bucket closed above: funding <= 5000000
funding_stage_Inclusive(funding) ==
    IF funding < 1000000 THEN Lit("Pre-Seed")
    ELSE IF funding <= 5000000 THEN Lit("Seed")
    ELSE IF funding < 20000000 THEN Lit("Series A")
    ELSE IF funding < 50000000 THEN Lit("Series B")
    ELSE IF funding < 100000000 THEN Lit("Series C+")
    ELSE Lit("Late Stage")

funding_stage(funding) ==
    IF funding < 1000000 THEN Lit("Pre-Seed")
    ELSE IF funding < 5000000 THEN Lit("Seed")
    ELSE IF funding < 20000000 THEN Lit("Series A")
    ELSE IF funding < 50000000 THEN Lit("Series B")
    ELSE IF funding < 100000000 THEN Lit("Series C+")
    ELSE Lit("Late Stage")

\* the size thresholds with the Small bucket closed above: employees <= 50
employee_size_Inclusive(employees) ==
    IF employees < 10 THEN Lit("Startup (1-9)")
    ELSE IF employees <= 50 THEN Lit("Small (10-49)")
    ELSE IF employees < 200 THEN Lit("Medium (50-199)")
    ELSE IF employees < 1000 THEN Lit("Large (200-999)")
    ELSE Lit("Enterprise (1000+)")

employee_size(employees) ==
    IF employees < 10 THEN Lit("Startup (1-9)")
    ELSE IF employees < 50 THEN Lit("Small (10-49)")
    ELSE IF employees < 200 THEN Lit("Medium (50-199)")
    ELSE IF employees < 1000 THEN Lit("Large (200-999)")
    ELSE Lit("Enterprise (1000+)")

\* current_year - founded_year keeps the number type of founded_year
Minus(n, v) == IF IsInt(v) THEN PInt(n - v.int) ELSE PFloat(n - v.float)

_calculate_derived_metrics(data) ==
    LET d1 == IF Present(data, "founded_year")
              THEN Put(data, "company_age", Minus(current_year, data["founded_year"]))
              ELSE data
        d2 == IF Present(d1, "funding_raised")
              THEN Put(d1, "funding_stage", funding_stage(Num(d1["funding_raised"])))
              ELSE d1
        d3 == IF Present(d2, "employees")
              THEN Put(d2, "employee_size", employee_size(Num(d2["employees"])))
              ELSE d2
    IN d3

\* merged = {"name": company_name.strip()}: the name normalised
InitialRecord_Stripped(name) == [n \in {"name"} |-> Strip(name)]

\* merged = {"name": company_name}
InitialRecord(name) == [n \in {"name"} |-> name]

_merge_data_sources(data_sources, name) ==
    LET m0 == InitialRecord(name)
        m1 == MergeHighest(m0, data_sources, "funding_raised")
        m2 == MergeHighest(m1, data_sources, "valuation")
        m3 == MergeHighest(m2, data_sources, "employees")
        m4 == MergeHighest(m3, data_sources, "revenue")
        m5 == MergeUnique(m4, data_sources, "founders")
        m6 == MergeUnique(m5, data_sources, "investors")
        m7 == MergeFirstStr(m6, data_sources, "ceo")
        m8 == MergeFoundedYear(m7, data_sources)
        m9 == MergeDescription(m8, data_sources)
        m10 == MergeWebsite(m9, data_sources)
        m11 == MergeFirstStr(m10, data_sources, "location")
        m12 == MergeFundingRounds(m11, data_sources)
    IN _calculate_derived_metrics(m12)

(***************************************************************************)
(* CompanyDataAggregator.__init__ and get_comprehensive_data               *)
(***************************************************************************)
\* self.scrapers, in insertion order
scrapers == <<"crunchbase", "linkedin", "web_search", "simple_web">>

\* len(self.scrapers)
total_sources == Len(scrapers)

\* no collector is at work; every scraper holds the session its constructor
\* opened, outside any with-block
CollectorsIdle ==
    /\ queries = EmptyDict
    /\ sessions = [s \in Range(scrapers) |-> "open"]
    /\ closes = <<>>
    /\ scope = "none"
    /\ max_retries = 3
    /\ gets = <<>>
    /\ navigated = <<>>

\* the company names a caller passes
Names == {<<>>, <<" ">>, Chars("Acme")}

\* progress_callback: absent, one that returns, one that may raise
Callbacks == {"None", "noop", "raises"}

\* str(e) of an exception raised by a collector or by the callback
Boom == PStr(<<"x">>)

\* partial records a collector returns on success
SampleRecords ==
    { [funding_raised |-> PInt(2000000)],
      [funding_raised |-> PInt(6000000), employees |-> PInt(40)],
      [name |-> PStr(<<"Z">>), ceo |-> PStr(<<"B", "o">>),
       founded_year |-> PInt(2010), founders |-> PList(<<PStr(<<"B", "o">>)>>),
       description |-> PStr(<<"d">>)] }

\* what one collector call can produce: an exception, None, an empty
\* mapping, an error result (alone or next to other keys), a partial record
Outcomes ==
    {[raises |-> Boom]}
    \cup {[returns |-> PNone], [returns |-> PDict(EmptyDict)],
          [returns |-> PDict([error |-> PStr(<<"e">>)])],
          [returns |-> PDict([error |-> PStr(<<"e">>),
                              funding_raised |-> PInt(9000000)])]}
    \cup {[returns |-> PDict(r)] : r \in SampleRecords}

Raises(o) == "raises" \in DOMAIN o

\* i / total_sources: the share of the scrapers already done
Fraction_ZeroBased(index, total) == <<index, total>>

\* (i + 2) / total_sources: an off-by-one in the numerator
Fraction_Overshoot(index, total) == <<index + 2, total>>

\* (i + 1) / total_sources, as numerator and denominator
Fraction(index, total) == <<index + 1, total>>

\* f"Scraping {source_name}..."
Message(source_name) ==
    PStr(Chars("Scraping ") \o Chars(source_name) \o Chars("..."))

\* the test without its 'error' not in data half
IsSuccess_NoErrorTest(data) == Truthy(data)

\* data and 'error' not in data
IsSuccess(data) == Truthy(data) /\ "error" \notin DOMAIN data.dict

\* all_data[source_name] = data: the failed result stored as it came
ErrorEntry_Unnormalised(data) == data.dict

\* {"error": data.get('error', 'No data found')}
ErrorEntry(data) == [error |-> Get(data.dict, "error", Lit("No data found"))]

\* except Exception as e: all_data[source_name] = {"error": str(e)}
ExceptEntry(message) == [error |-> message]

Init ==
    /\ pc = "idle"
    /\ company_name = <<>>
    /\ progress_callback = "None"
    /\ i = 0
    /\ all_data = EmptyDict
    /\ scraped_sources = <<>>
    /\ successful_sources = 0
    /\ calls = <<>>
    /\ returned = EmptyDict
    /\ progress = <<>>
    /\ clock = 0
    /\ result = PNone
    /\ run_year = current_year
    /\ CollectorsIdle

\* a caller invokes get_comprehensive_data(company_name, progress_callback)
Enter ==
    /\ pc \in {"idle", "returned"}
    /\ UNCHANGED run_year
    /\ UNCHANGED collector_vars
    /\ company_name' \in Names
    /\ progress_callback' \in Callbacks
    /\ i' = 0
    /\ all_data' = EmptyDict
    /\ scraped_sources' = <<>>
    /\ successful_sources' = 0
    /\ calls' = <<>>
    /\ returned' = EmptyDict
    /\ progress' = <<>>
    /\ clock' = 0
    /\ result' = PNone
    /\ pc' = IF total_sources > 0 THEN "progress" ELSE "merge"

\* the loop goes on with the next scraper, or leaves
Advance == /\ i' = i + 1
           /\ pc' = IF i + 1 < total_sources THEN "progress" ELSE "merge"

\* all_data[source_name] = entry
Store(source_name, entry) ==
    /\ all_data' = Put(all_data, source_name, entry)
    /\ scraped_sources' = IF source_name \in DOMAIN all_data THEN scraped_sources
                          ELSE Append(scraped_sources, source_name)

\* if progress_callback: progress_callback(...), and the callback returns
ReportProgress ==
    /\ pc = "progress"
    /\ UNCHANGED run_year
    /\ UNCHANGED collector_vars
    /\ progress' = IF progress_callback = "None" THEN progress
                   ELSE Append(progress, [message |-> Message(scrapers[i + 1]),
                                          fraction |-> Fraction(i, total_sources)])
    /\ pc' = "scrape"
    /\ UNCHANGED <<company_name, progress_callback, i, all_data, scraped_sources,
                   successful_sources, calls, returned, clock, result>>

\* the callback raises: the except clause of the loop body takes over
ProgressRaises ==
    /\ pc = "progress"
    /\ UNCHANGED run_year
    /\ UNCHANGED collector_vars
    /\ progress_callback = "raises"
    /\ progress' = Append(progress, [message |-> Message(scrapers[i + 1]),
                                     fraction |-> Fraction(i, total_sources)])
    /\ Store(scrapers[i + 1], ExceptEntry(Boom))
    /\ Advance
    /\ UNCHANGED <<company_name, progress_callback, successful_sources, calls,
                   returned, clock, result>>

\* "if 'error' not in data" without the test of data itself: an empty
\* mapping is stored as it came
Collected_EmptyKept(o) ==
    IF Raises(o) THEN ExceptEntry(o.raises)
    ELSE IF IsNone(o.returns)
    THEN ExceptEntry(Lit("'NoneType' object has no attribute 'get'"))
    ELSE IF "error" \notin DOMAIN o.returns.dict THEN o.returns.dict
    ELSE ErrorEntry(o.returns)

\* the entry the loop body stores for a collector outcome
Collected(o) ==
    IF Raises(o) THEN ExceptEntry(o.raises)
    ELSE IF IsSuccess(o.returns) THEN o.returns.dict
    ELSE IF IsNone(o.returns)
    THEN \* data.get raises AttributeError
         ExceptEntry(Lit("'NoneType' object has no attribute 'get'"))
    ELSE ErrorEntry(o.returns)

\* the counter incremented for every collector that returns
Counted_AnyReturn(o) == ~Raises(o)

\* successful_sources += 1 is reached
Counted(o) == ~Raises(o) /\ IsSuccess(o.returns)

\* time.sleep(2) is reached: no exception in the loop body
Slept(o) == ~Raises(o) /\ ~IsNone(o.returns)

\* the collector is called and its outcome handled
Scrape ==
    /\ pc = "scrape"
    /\ UNCHANGED run_year
    /\ UNCHANGED collector_vars
    /\ \E o \in Outcomes :
         LET source_name == scrapers[i + 1] IN
         /\ calls' = Append(calls, source_name)
         /\ returned' = Put(returned, source_name, o)
         /\ Store(source_name, Collected(o))
         /\ successful_sources' = IF Counted(o) THEN successful_sources + 1
                                  ELSE successful_sources
         /\ clock' = IF Slept(o) THEN clock + 2 ELSE clock
    /\ Advance
    /\ UNCHANGED <<company_name, progress_callback, progress, result>>

\* merged_data['metadata'] = {...}
Metadata ==
    PDict([successful_sources |-> PInt(successful_sources),
           total_sources |-> PInt(total_sources),
           scraped_sources |->
               PList([k \in 1..Len(scraped_sources) |-> Lit(scraped_sources[k])]),
           timestamp |-> PFloat(clock)])

\* merge, add the metadata and return
Finish ==
    /\ pc = "merge"
    /\ UNCHANGED run_year
    /\ UNCHANGED collector_vars
    /\ result' = PDict(Put(_merge_data_sources(all_data, company_name),
                           "metadata", Metadata))
    /\ pc' = "returned"
    /\ UNCHANGED <<company_name, progress_callback, i, all_data, scraped_sources,
                   successful_sources, calls, returned, progress, clock>>

Next == Enter \/ ReportProgress \/ ProgressRaises \/ Scrape \/ Finish

Spec == Init /\ [][Next]_vars

(***************************************************************************)
(* _merge_data_sources alone, on bounded result mappings: every source is  *)
(* absent, an error entry, or a record reporting one field.                *)
(***************************************************************************)
NumericFields == {"funding_raised", "valuation", "employees", "revenue"}

\* values a source may hold under a numeric key
NumericValues ==
    {PInt(n) : n \in -1..MaxAmount} \cup {PFloat(MaxAmount)}
    \cup {PNone, PStr(<<"9">>), PList(<<PInt(9)>>)}

\* values a source may hold under ceo or location
TextValues ==
    {PStr(<<>>), PStr(<<" ">>), PStr(<<"B", "o">>), PStr(<<"A", "l">>),
     PStr(<<" ", "C", "y", " ">>), PNone, PList(<<PStr(<<"B", "o">>)>>), PInt(7)}

\* values a source may hold under founded_year
YearValues ==
    {PInt(0), PInt(1900), PInt(1901), PInt(2010), PInt(LastRunYear + 4),
     PFloat(2010), PStr(<<"2", "0", "1", "0">>), PNone}

\* values a source may hold under website
WebsiteValues ==
    {PStr(Chars("http") \o <<":", "/", "/", "a">>),
     PStr(Chars("http") \o <<":", "/", "/", "b", " ">>),
     PStr(<<" ">> \o Chars("http") \o <<":", "/", "/", "c">>),
     PStr(<<"a", ".", "c">>), PStr(<<>>), PStr(<<" ">>), PNone}

\* values a source may hold under description
DescriptionValues ==
    {PStr(<<"d">>), PStr(<<"d", "d">>), PStr(<<"e", "e">>), PStr(<<"d", "d", "d">>),
     PStr(<<" ", " ", "f", " ", " ">>), PStr(<<" ">>), PStr(<<>>), PNone,
     PList(<<PStr(<<"d", "d", "d", "d">>)>>)}

\* values a source may hold under founders or investors
NameListValues ==
    {PList(<<>>), PList(<<PStr(<<"B", "o">>)>>),
     PList(<<PStr(<<"A", "l">>), PStr(<<"B", "o">>)>>),
     PList(<<PStr(<<"B", "o">>), PStr(<<"B", "o">>)>>),
     PList(<<PStr(<<>>), PStr(<<"C", "y">>)>>),
     PList(<<PStr(<<" ">>)>>), PList(<<PStr(<<>>)>>),
     PStr(<<"B", "o">>), PNone}

\* funding-round entries
Seed5 == PDict([amount |-> PInt(5000000), type |-> Lit("Seed")])
Seed5Float == PDict([amount |-> PFloat(5000000), type |-> Lit("Seed")])
Seed5Dated ==
    PDict([date |-> PStr(<<"d">>), amount |-> PInt(5000000), type |-> Lit("Seed")])
SeriesA5 == PDict([amount |-> PInt(5000000), type |-> Lit("Series A")])
DateOnly == PDict([date |-> PStr(<<"d">>)])
NullRound == PDict([date |-> PStr(<<"d">>), amount |-> PNone, type |-> PNone])
TypeOnly == PDict([type |-> Lit("Seed")])

\* values a source may hold under funding_rounds
RoundListValues ==
    {PList(<<>>), PList(<<Seed5>>), PList(<<Seed5Float>>),
     PList(<<Seed5Dated, SeriesA5>>), PList(<<Seed5, Seed5>>),
     PList(<<DateOnly>>), PList(<<NullRound, TypeOnly>>),
     PList(<<PStr(<<"x">>), SeriesA5>>), Seed5, PNone}

FieldValues(field) ==
    CASE field \in NumericFields -> NumericValues
      [] field \in {"ceo", "location"} -> TextValues
      [] field = "founded_year" -> YearValues
      [] field = "website" -> WebsiteValues
      [] field = "description" -> DescriptionValues
      [] field \in {"founders", "investors"} -> NameListValues
      [] field = "funding_rounds" -> RoundListValues

MergeFields == NumericFields

\* the entries of a result mapping for one field
Entries(field) ==
    {[error |-> PStr(<<"e">>)], [name |-> PStr(<<"Z">>)]}
    \cup {(field :> v) : v \in FieldValues(field)}

Absent == [absent |-> TRUE]

WithoutAbsent(g) == [s \in {x \in DOMAIN g : g[x] # Absent} |-> g[s]]

\* a result mapping whose sources report (at most) the given field
MergeInputs(field) == [Range(scrapers) -> Entries(field) \cup {Absent}]

\* _merge_data_sources is about to be called on a mapping over one of the fields
MergeInputOver(fields) ==
    /\ pc = "merge_input"
    /\ company_name = Chars("Acme")
    /\ \E field \in fields : \E g \in MergeInputs(field) :
         all_data = WithoutAbsent(g)
    /\ progress_callback = "None"
    /\ i = 0
    /\ scraped_sources = <<>>
    /\ successful_sources = 0
    /\ calls = <<>>
    /\ returned = EmptyDict
    /\ progress = <<>>
    /\ clock = 0
    /\ result = PNone
    /\ run_year = current_year
    /\ CollectorsIdle

InitMerge ==
    /\ pc = "merge_input"
    /\ company_name = Chars("Acme")
    /\ \E field \in MergeFields : \E g \in MergeInputs(field) :
         all_data = WithoutAbsent(g)
    /\ progress_callback = "None"
    /\ i = 0
    /\ scraped_sources = <<>>
    /\ successful_sources = 0
    /\ calls = <<>>
    /\ returned = EmptyDict
    /\ progress = <<>>
    /\ clock = 0
    /\ result = PNone
    /\ run_year = current_year
    /\ CollectorsIdle

\* _merge_data_sources(all_data, company_name) is called and returns
MergeCall ==
    /\ pc = "merge_input"
    /\ UNCHANGED run_year
    /\ UNCHANGED collector_vars
    /\ result' = PDict(_merge_data_sources(all_data, company_name))
    /\ pc' = "merged"
    /\ UNCHANGED <<company_name, progress_callback, i, all_data, scraped_sources,
                   successful_sources, calls, returned, progress, clock>>

NextMerge == MergeCall

SpecMerge == InitMerge /\ [][NextMerge]_vars

\* the fields merged by "take first non-empty value"
FirstFields == {"ceo", "founded_year", "website", "location"}

InitFirst == MergeInputOver(FirstFields)

SpecFirst == InitFirst /\ [][NextMerge]_vars

InitDescription == MergeInputOver({"description"})

SpecDescription == InitDescription /\ [][NextMerge]_vars

\* the fields merged by "combine unique names"
NameFields == {"founders", "investors"}

InitNames == MergeInputOver(NameFields)

SpecNames == InitNames /\ [][NextMerge]_vars

InitRounds == MergeInputOver({"funding_rounds"})

SpecRounds == InitRounds /\ [][NextMerge]_vars

(***************************************************************************)
(* _merge_data_sources on records that carry the inputs of the derived     *)
(* metrics, the run taking place in any of the years of RunYears.          *)
(***************************************************************************)
\* funding_raised values around the thresholds of funding_stage
FundingValues ==
    {PInt(-1), PInt(0), PInt(1), PInt(999999), PInt(1000000), PInt(4999999),
     PInt(5000000), PFloat(5000000), PInt(6000000), PInt(19999999),
     PInt(20000000), PInt(49999999), PInt(50000000), PInt(99999999),
     PInt(100000000), PInt(100000001)}

\* employees values around the thresholds of employee_size
EmployeeValues ==
    {PInt(0), PInt(1), PInt(9), PInt(10), PInt(40), PInt(49), PInt(50),
     PInt(199), PInt(200), PInt(999), PInt(1000), PInt(1001)}

\* founded_year values, valid and not
FoundedValues == {PInt(1900), PInt(1901), PInt(2010), PInt(current_year), PNone}

\* a record's entry under key, or no entry
Optional(key, v) == IF v = Absent THEN EmptyDict ELSE (key :> v)

InitDerived ==
    /\ pc = "merge_input"
    /\ company_name = Chars("Acme")
    /\ \E a \in {Absent, PInt(2000000)} :
       \E f \in FundingValues \cup {Absent} :
       \E e \in EmployeeValues \cup {Absent} :
       \E y \in FoundedValues \cup {Absent} :
         all_data =
             Optional("crunchbase", Optional("funding_raised", a))
             @@ ("simple_web" :>
                   (("name" :> PStr(company_name))
                    @@ Optional("funding_raised", f)
                    @@ Optional("employees", e)
                    @@ Optional("founded_year", y)))
    /\ progress_callback = "None"
    /\ i = 0
    /\ scraped_sources = <<>>
    /\ successful_sources = 0
    /\ calls = <<>>
    /\ returned = EmptyDict
    /\ progress = <<>>
    /\ clock = 0
    /\ result = PNone
    /\ run_year \in RunYears
    /\ CollectorsIdle

SpecDerived == InitDerived /\ [][NextMerge]_vars

(***************************************************************************)
(* _merge_data_sources called on a mapping, then again on the same entries *)
(* inserted in another order.  A dict keeps its insertion order:           *)
(* scraped_sources is list(all_data.keys()).                               *)
(***************************************************************************)
OrderFields ==
    {"funding_raised", "founders", "ceo", "founded_year", "description",
     "funding_rounds"}

\* a few values per field, valid ones that differ between sources and one not
OrderValues(field) ==
    CASE field = "funding_raised" -> {PInt(1), PFloat(1), PInt(2)}
      [] field = "founders" ->
           {PList(<<PStr(<<"B", "o">>)>>),
            PList(<<PStr(<<"A", "l">>), PStr(<<"B", "o">>)>>),
            PList(<<PStr(<<>>)>>)}
      [] field = "ceo" -> {PStr(<<"B", "o">>), PStr(<<"A", "l">>), PStr(<<" ">>)}
      [] field = "founded_year" -> {PInt(2010), PInt(2011), PInt(1900)}
      [] field = "description" ->
           {PStr(<<"d", "d">>), PStr(<<"e", "e">>), PStr(<<"d">>)}
      [] field = "funding_rounds" ->
           {PList(<<Seed5>>), PList(<<Seed5Dated, SeriesA5>>), PList(<<Seed5Float>>)}

OrderEntries(field) ==
    {[error |-> PStr(<<"e">>)]} \cup {(field :> v) : v \in OrderValues(field)}

\* the keys of a mapping in the order of the registered scrapers
InRegistrationOrder(keys) == SelectSeq(scrapers, LAMBDA s : s \in keys)

\* every order in which the keys can have been inserted
InsertionOrders(keys) ==
    {o \in [1..Cardinality(keys) -> keys] : Range(o) = keys}

InitOrder ==
    /\ pc = "merge_input"
    /\ company_name = Chars("Acme")
    /\ \E field \in OrderFields :
       \E g \in [Range(scrapers) -> OrderEntries(field) \cup {Absent}] :
         /\ all_data = WithoutAbsent(g)
         /\ scraped_sources = InRegistrationOrder(DOMAIN WithoutAbsent(g))
    /\ progress_callback = "None"
    /\ i = 0
    /\ successful_sources = 0
    /\ calls = <<>>
    /\ returned = EmptyDict
    /\ progress = <<>>
    /\ clock = 0
    /\ result = PNone
    /\ run_year = current_year
    /\ CollectorsIdle

\* the same entries are put into a new mapping, in any order
Reinsert ==
    /\ pc = "merged"
    /\ scraped_sources # <<>>
    /\ scraped_sources' \in InsertionOrders(DOMAIN all_data)
    /\ pc' = "reinserted"
    /\ UNCHANGED <<company_name, progress_callback, i, all_data, successful_sources,
                   calls, returned, progress, clock, result, run_year>>
    /\ UNCHANGED collector_vars

\* _merge_data_sources is called on the new mapping
Remerge ==
    /\ pc = "reinserted"
    /\ result' = PDict(_merge_data_sources(all_data, company_name))
    /\ pc' = "remerged"
    /\ UNCHANGED <<company_name, progress_callback, i, all_data, scraped_sources,
                   successful_sources, calls, returned, progress, clock, run_year>>
    /\ UNCHANGED collector_vars

NextOrder == MergeCall \/ Reinsert \/ Remerge

SpecOrder == InitOrder /\ [][NextOrder]_vars

(***************************************************************************)
(* _merge_data_sources on what the registered crunchbase collector         *)
(* returns: _extract_company_metrics stores the funding amount under the   *)
(* key total_funding (crunchbase_simple_search.py:152-165).                *)
(***************************************************************************)
\* what _parse_funding_amount can give for the funding element, or no element
TotalFundingValues == {Absent, PFloat(5000000), PFloat(1), PNone}

\* the metrics of a Crunchbase page: every element may be missing
CrunchbaseMetrics ==
    { Optional("name", n) @@ Optional("description", d)
      @@ Optional("total_funding", t) @@ Optional("employees", e) :
        n \in {Absent, PStr(<<"Z">>)}, d \in {Absent, PStr(<<"d">>)},
        t \in TotalFundingValues, e \in {Absent, PInt(40)} }

\* metrics with the funding element giving t
WithTotalFunding(metrics, t) ==
    IF t = Absent
    THEN [k \in DOMAIN metrics \ {"total_funding"} |-> metrics[k]]
    ELSE Put(metrics, "total_funding", t)

InitTotal ==
    /\ pc = "merge_input"
    /\ company_name = Chars("Acme")
    /\ \E metrics \in CrunchbaseMetrics :
       \E l \in {Absent, [error |-> PStr(<<"e">>)], [employees |-> PInt(10)]} :
       \E w \in {Absent, [name |-> PStr(company_name)],
                 [name |-> PStr(company_name), funding_raised |-> PFloat(2000000)]} :
         /\ returned = [s \in {"crunchbase"} |-> [returns |-> PDict(metrics)]]
         /\ all_data = WithoutAbsent(
                 [s \in {"crunchbase", "linkedin", "web_search"} |->
                      CASE s = "crunchbase" -> Collected([returns |-> PDict(metrics)])
                        [] s = "linkedin" -> l
                        [] s = "web_search" -> w])
    /\ progress_callback = "None"
    /\ i = 0
    /\ scraped_sources = <<>>
    /\ successful_sources = 0
    /\ calls = <<>>
    /\ progress = <<>>
    /\ clock = 0
    /\ result = PNone
    /\ run_year = current_year
    /\ CollectorsIdle

\* the same page with another funding element, or without one, is collected
Retotal ==
    /\ pc = "merged"
    /\ "crunchbase" \in DOMAIN returned
    /\ \E t \in TotalFundingValues :
         LET metrics == WithTotalFunding(returned["crunchbase"].returns.dict, t) IN
         /\ returned' = Put(returned, "crunchbase", [returns |-> PDict(metrics)])
         /\ all_data' = Put(all_data, "crunchbase",
                            Collected([returns |-> PDict(metrics)]))
    /\ pc' = "reinserted"
    /\ UNCHANGED <<company_name, progress_callback, i, scraped_sources,
                   successful_sources, calls, progress, clock, result, run_year>>
    /\ UNCHANGED collector_vars

NextTotal == MergeCall \/ Retotal \/ Remerge

SpecTotal == InitTotal /\ [][NextTotal]_vars

(***************************************************************************)
(* WebSearchScraper.search_company_data and                                *)
(* SimpleWebScraper.search_company_data (the same code over different      *)
(* queries), called by the loop of get_comprehensive_data.                 *)
(***************************************************************************)
\* the collectors that run search queries
SearchCollectors == {"web_search", "simple_web"}

\* len(search_queries)
QueryCount == 4

\* the keys _extract_data_from_results can extract for the q-th query of a
\* collector: the branches that the words of the query enable
Extractable(source_name, q) ==
    IF source_name = "web_search"
    THEN <<{"funding_raised", "investors"},
           {"ceo", "founders", "revenue", "market_cap"},
           {"revenue", "market_cap", "employees"},
           {"funding_raised", "investors"}>>[q]
    ELSE <<{"funding_raised", "investors", "revenue", "market_cap"},
           {"ceo", "founders", "employees"},
           {"funding_raised", "investors"},
           {"revenue", "market_cap"}>>[q]

\* a value extracted under a key by the q-th query
Extracted(key, q) ==
    CASE key = "funding_raised" -> PFloat(IF q = 1 THEN 2000000 ELSE 6000000)
      [] key = "investors" -> PList(<<PStr(<<"V">>)>>)
      [] key = "ceo" -> PStr(<<"B", "o">>)
      [] key = "founders" -> PList(<<PStr(<<"A", "l">>), PStr(<<"B", "o">>)>>)
      [] key = "revenue" -> PFloat(3000000)
      [] key = "market_cap" -> PFloat(9000000)
      [] key = "employees" -> PInt(40)

\* what one query can do: raise, or give an extracted dict (nothing, one key,
\* or every key the query can yield)
QueryOutcomes(source_name, q) ==
    {[raises |-> Boom]}
    \cup {[extracted |-> [k \in K |-> Extracted(k, q)]] :
            K \in {S \in SUBSET Extractable(source_name, q) :
                       Cardinality(S) <= 1 \/ S = Extractable(source_name, q)}}

\* every query raises
AllRaise == [q \in 1..QueryCount |-> [raises |-> Boom]]

\* for key, value in extracted_data.items(): if value: extend or append
Accumulate(data, extracted) ==
    LET found == {k \in DOMAIN extracted : Truthy(extracted[k])}
    IN [k \in DOMAIN data \cup found |->
            (IF k \in DOMAIN data THEN data[k] ELSE <<>>)
            \o (IF k \notin found THEN <<>>
                ELSE IF IsList(extracted[k]) THEN extracted[k].list
                ELSE <<extracted[k]>>)]

\* the loop over search_queries: a query that raises is skipped
Searched(outcomes) ==
    LET F[q \in 0..Len(outcomes)] ==
            IF q = 0 THEN EmptyDict
            ELSE IF Raises(outcomes[q]) THEN F[q - 1]
            ELSE Accumulate(F[q - 1], outcomes[q].extracted)
    IN F[Len(outcomes)]

\* max(unique_values) over numbers
SetMax(S) == CHOOSE v \in S : \A w \in S : Num(w) <= Num(v)

\* list(set([v for v in values if v]))
Unique(values) == {v \in Range(values) : Truthy(v)}

\* cleaned[key] = unique_values[0] for a list of one value
_clean_and_merge_data_Unwrapped(data, name) ==
    [key \in {"name"} \cup {k \in DOMAIN data : Unique(data[k]) # {}} |->
        IF key = "name" THEN PStr(name)
        ELSE IF key \in {"funding_raised", "revenue", "market_cap"}
        THEN SetMax(Unique(data[key]))
        ELSE IF Cardinality(Unique(data[key])) = 1
        THEN CHOOSE v \in Unique(data[key]) : TRUE
        ELSE PUnordered(Unique(data[key]))]

\* cleaned = {} instead of {"name": company_name}
_clean_and_merge_data_Unnamed(data, name) ==
    [key \in {k \in DOMAIN data : Unique(data[k]) # {}} |->
        IF key \in {"funding_raised", "revenue", "market_cap"}
        THEN SetMax(Unique(data[key]))
        ELSE PUnordered(Unique(data[key]))]

_clean_and_merge_data(data, name) ==
    [key \in {"name"} \cup {k \in DOMAIN data : Unique(data[k]) # {}} |->
        IF key = "name" THEN PStr(name)
        ELSE IF key \in {"funding_raised", "revenue", "market_cap"}
        THEN SetMax(Unique(data[key]))
        ELSE PUnordered(Unique(data[key]))]

search_company_data(name, outcomes) ==
    _clean_and_merge_data(Searched(outcomes), name)

\* the records a record with list(set(...)) values can be: one per order
Listings(record) ==
    LET keys == {k \in DOMAIN record : Tag(record[k]) = "unordered"}
        orders == UNION {InsertionOrders(record[k].unordered) : k \in keys}
    IN {[k \in DOMAIN record |-> IF k \in keys THEN PList(c[k]) ELSE record[k]] :
          c \in {d \in [keys -> orders] :
                    \A k \in keys : d[k] \in InsertionOrders(record[k].unordered)}}

\* what the collectors without search queries return here
OtherOutcomes ==
    {[returns |-> PDict([error |-> PStr(<<"e">>)])],
     [returns |-> PDict([description |-> PStr(<<"d">>)])]}

\* what the call of a collector can produce
CollectorOutcomes(source_name) ==
    IF source_name \in SearchCollectors
    THEN {[returns |-> PDict(r)] :
            r \in Listings(search_company_data(company_name, queries[source_name]))}
    ELSE OtherOutcomes

InitSearch ==
    /\ pc = "progress"
    /\ company_name \in {<<" ">>, Chars("Acme")}
    /\ \E s \in SearchCollectors :
       \E f \in [1..QueryCount -> UNION {QueryOutcomes(s, q) : q \in 1..QueryCount}] :
         /\ \A q \in 1..QueryCount : f[q] \in QueryOutcomes(s, q)
         /\ queries = [c \in SearchCollectors |-> IF c = s THEN f ELSE AllRaise]
    /\ progress_callback = "None"
    /\ i = 0
    /\ all_data = EmptyDict
    /\ scraped_sources = <<>>
    /\ successful_sources = 0
    /\ calls = <<>>
    /\ returned = EmptyDict
    /\ progress = <<>>
    /\ clock = 0
    /\ result = PNone
    /\ run_year = current_year
    /\ sessions = [c \in Range(scrapers) |-> "open"]
    /\ closes = <<>>
    /\ scope = "none"
    /\ max_retries = 3
    /\ gets = <<>>
    /\ navigated = <<>>

\* the collector is called, runs its queries, and its record is handled
ScrapeSearch ==
    /\ pc = "scrape"
    /\ \E o \in CollectorOutcomes(scrapers[i + 1]) :
         LET source_name == scrapers[i + 1] IN
         /\ calls' = Append(calls, source_name)
         /\ returned' = Put(returned, source_name, o)
         /\ Store(source_name, Collected(o))
         /\ successful_sources' = IF Counted(o) THEN successful_sources + 1
                                  ELSE successful_sources
         /\ clock' = IF Slept(o) THEN clock + 2 ELSE clock
    /\ Advance
    /\ UNCHANGED <<company_name, progress_callback, progress, result, run_year>>
    /\ UNCHANGED collector_vars

NextSearch == ReportProgress \/ ScrapeSearch \/ Finish

SpecSearch == InitSearch /\ [][NextSearch]_vars

(***************************************************************************)
(* with CompanyDataAggregator(...) as aggregator: __init__, __enter__, the *)
(* body, __exit__ and close_all_scrapers.  sessions[s] is the state of the *)
(* browser (or requests session) that the constructor of s opened.         *)
(***************************************************************************)
\* close_all_scrapers may be called directly this many times inside the scope
MaxCloseCalls == 1

\* the scrapers whose constructor starts a browser and whose class has close()
SeleniumScrapers == {"crunchbase", "linkedin", "web_search"}

\* the aggregator's state outside the collectors, untouched by these steps
aggregator_vars ==
    <<company_name, progress_callback, i, all_data, scraped_sources,
      successful_sources, calls, returned, progress, clock, result, run_year>>

InitScope ==
    /\ pc = "constructing"
    /\ company_name = <<>>
    /\ progress_callback = "None"
    /\ i = 0
    /\ all_data = EmptyDict
    /\ scraped_sources = <<>>
    /\ successful_sources = 0
    /\ calls = <<>>
    /\ returned = EmptyDict
    /\ progress = <<>>
    /\ clock = 0
    /\ result = PNone
    /\ run_year = current_year
    /\ queries = EmptyDict
    /\ sessions = EmptyDict
    /\ closes = <<>>
    /\ scope = "none"
    /\ max_retries = 3
    /\ gets = <<>>
    /\ navigated = <<>>

\* __init__: the next scraper of the dict display is constructed
Construct ==
    /\ pc = "constructing"
    /\ LET s == scrapers[Cardinality(DOMAIN sessions) + 1] IN
         sessions' = Put(sessions, s, "open")
    /\ pc' = IF Cardinality(DOMAIN sessions) + 1 = total_sources
             THEN "constructed" ELSE "constructing"
    /\ UNCHANGED <<queries, closes, scope, max_retries, gets, navigated>>
    /\ UNCHANGED aggregator_vars

\* __init__: _setup_driver of the next scraper raises; no aggregator exists
ConstructRaises ==
    /\ pc = "constructing"
    /\ scrapers[Cardinality(DOMAIN sessions) + 1] \in SeleniumScrapers
    /\ pc' = "construct_failed"
    /\ UNCHANGED <<queries, sessions, closes, scope, max_retries, gets, navigated>>
    /\ UNCHANGED aggregator_vars

\* __enter__
EnterScope ==
    /\ pc = "constructed"
    /\ scope = "none"
    /\ scope' = "entered"
    /\ pc' = "in_scope"
    /\ UNCHANGED <<queries, sessions, closes, max_retries, gets, navigated>>
    /\ UNCHANGED aggregator_vars

\* the body calls aggregator.close_all_scrapers()
CallClose ==
    /\ pc = "in_scope"
    /\ Len(closes) < MaxCloseCalls * total_sources
    /\ pc' = "closing"
    /\ UNCHANGED <<queries, sessions, closes, scope, max_retries, gets, navigated>>
    /\ UNCHANGED aggregator_vars

\* the body ends, normally or by an exception: __exit__ calls close_all_scrapers
LeaveBody ==
    /\ pc = "in_scope"
    /\ scope' \in {"returned", "raised"}
    /\ pc' = "closing"
    /\ UNCHANGED <<queries, sessions, closes, max_retries, gets, navigated>>
    /\ UNCHANGED aggregator_vars

\* no try around scraper.close(): an exception ends close_all_scrapers
AfterClose_Propagating(raised, k) ==
    IF raised THEN "close_raised"
    ELSE IF k < total_sources THEN "closing"
    ELSE IF scope = "entered" THEN "in_scope" ELSE "left"

\* where control is after the k-th close of the loop: "except: pass" goes on
AfterClose(raised, k) ==
    IF k < total_sources THEN "closing"
    ELSE IF scope = "entered" THEN "in_scope" ELSE "left"

\* what scraper.close() can do to the session of s: SimpleWebScraper has no
\* close (AttributeError); driver.quit() ends the browser, or raises and
\* leaves it in either state
CloseOutcomes(s) ==
    IF s \notin SeleniumScrapers
    THEN {[raised |-> TRUE, session |-> sessions[s]]}
    ELSE {[raised |-> FALSE, session |-> "closed"],
          [raised |-> TRUE, session |-> sessions[s]],
          [raised |-> TRUE, session |-> "closed"]}

\* one iteration of the loop of close_all_scrapers
CloseScraper ==
    /\ pc = "closing"
    /\ LET k == (Len(closes) % total_sources) + 1
           s == scrapers[k]
       IN \E o \in CloseOutcomes(s) :
            /\ sessions' = Put(sessions, s, o.session)
            /\ closes' = Append(closes, [scraper |-> s, raised |-> o.raised])
            /\ pc' = AfterClose(o.raised, k)
    /\ UNCHANGED <<queries, scope, max_retries, gets, navigated>>
    /\ UNCHANGED aggregator_vars

NextScope ==
    Construct \/ ConstructRaises \/ EnterScope \/ CallClose \/ LeaveBody \/ CloseScraper

SpecScope == InitScope /\ [][NextScope]_vars

(***************************************************************************)
(* SeleniumCompanyScraper.navigate_with_retry, called once per query by    *)
(* WebSearchScraper._search_google or directly, and the page loads of      *)
(* CrunchbaseSimpleScraper.scrape_company_data and                         *)
(* LinkedInSimpleScraper.scrape_company_data.  gets holds the outcome of   *)
(* every driver.get of the operation under way; navigated holds one record *)
(* per finished call of navigate_with_retry.                               *)
(***************************************************************************)
\* the greatest max_retries a direct caller passes
MaxRetries == 3

\* direct calls of navigate_with_retry in one behaviour
MaxNavigations == 2

\* the collectors that load a search page and then the first link found
LinkCollectors == {"crunchbase", "linkedin"}

\* the error result of a collector whose search gave no usable link
NotFound(source_name) ==
    IF source_name = "crunchbase"
    THEN {PDict([error |-> Lit("DuckDuckGo search redirected or blocked")]),
          PDict([error |-> Lit("No Crunchbase page found for this company")])}
    ELSE {PDict([error |-> Lit("No LinkedIn company page found for this company")])}

\* for attempt in range(max_retries + 1): one attempt too many
MoreAttempts_OneMore(done, limit) == done <= limit

\* for attempt in range(max_retries): another attempt remains
MoreAttempts(done, limit) == done < limit

InitRetry ==
    /\ pc = "collector_idle"
    /\ company_name = Chars("Acme")
    /\ calls \in {<<>>, <<"web_search">>, <<"crunchbase">>, <<"linkedin">>}
    /\ progress_callback = "None"
    /\ i = 0
    /\ all_data = EmptyDict
    /\ scraped_sources = <<>>
    /\ successful_sources = 0
    /\ returned = EmptyDict
    /\ progress = <<>>
    /\ clock = 0
    /\ result = PNone
    /\ run_year = current_year
    /\ queries = EmptyDict
    /\ sessions = [s \in Range(scrapers) |-> "open"]
    /\ closes = <<>>
    /\ scope = "none"
    /\ max_retries = 3
    /\ gets = <<>>
    /\ navigated = <<>>

\* navigate_with_retry(url) is called by _search_google for the next query,
\* or navigate_with_retry(url, max_retries) by a direct caller
StartNavigate ==
    /\ pc = "collector_idle"
    /\ \/ calls = <<"web_search">> /\ Len(navigated) < QueryCount /\ max_retries' = 3
       \/ calls = <<>> /\ Len(navigated) < MaxNavigations
          /\ max_retries' \in 0..MaxRetries
    /\ gets' = <<>>
    /\ pc' = "navigating"
    /\ UNCHANGED <<queries, sessions, closes, scope, navigated>>
    /\ UNCHANGED aggregator_vars

\* one round of the loop: self.driver.get(url) returns (return True) or raises
\* (the pause of 2 to 5 seconds follows)
NavigateGet ==
    /\ pc = "navigating"
    /\ MoreAttempts(Len(gets), max_retries)
    /\ \E ok \in BOOLEAN :
         /\ gets' = Append(gets, ok)
         /\ IF ok
            THEN /\ navigated' = Append(navigated, [max_retries |-> max_retries,
                                                    attempts |-> Append(gets, ok),
                                                    result |-> TRUE])
                 /\ pc' = "collector_idle"
                 /\ clock' = clock
            ELSE /\ navigated' = navigated
                 /\ pc' = "navigating"
                 /\ clock' \in {clock + 2, clock + 5}
    /\ UNCHANGED <<queries, sessions, closes, scope, max_retries>>
    /\ UNCHANGED <<company_name, progress_callback, i, all_data, scraped_sources,
                   successful_sources, calls, returned, progress, result, run_year>>

\* the loop is over: return False
NavigateGiveUp ==
    /\ pc = "navigating"
    /\ ~MoreAttempts(Len(gets), max_retries)
    /\ navigated' = Append(navigated, [max_retries |-> max_retries,
                                       attempts |-> gets, result |-> FALSE])
    /\ pc' = "collector_idle"
    /\ UNCHANGED <<queries, sessions, closes, scope, max_retries, gets>>
    /\ UNCHANGED aggregator_vars

\* scrape_company_data: self.driver.get(search_url); an exception becomes the
\* error result of the except clause
LoadSearch ==
    /\ pc = "collector_idle"
    /\ Len(calls) = 1 /\ calls[1] \in LinkCollectors
    /\ calls[1] \notin DOMAIN returned
    /\ gets = <<>>
    /\ \E ok \in BOOLEAN :
         /\ gets' = <<ok>>
         /\ returned' = IF ok THEN returned
                        ELSE Put(returned, calls[1], [returns |-> PDict(ExceptEntry(Boom))])
         /\ pc' = IF ok THEN "search_loaded" ELSE "collector_idle"
    /\ UNCHANGED <<queries, sessions, closes, scope, max_retries, navigated>>
    /\ UNCHANGED <<company_name, progress_callback, i, all_data, scraped_sources,
                   successful_sources, calls, progress, clock, result, run_year>>

\* the search was redirected or shows no link: the error result is returned
ReturnNotFound ==
    /\ pc = "search_loaded"
    /\ \E e \in NotFound(calls[1]) :
         returned' = Put(returned, calls[1], [returns |-> e])
    /\ pc' = "collector_idle"
    /\ UNCHANGED collector_vars
    /\ UNCHANGED <<company_name, progress_callback, i, all_data, scraped_sources,
                   successful_sources, calls, progress, clock, result, run_year>>

\* self.driver.get(first link), then _extract_company_metrics
FollowLink ==
    /\ pc = "search_loaded"
    /\ \E ok \in BOOLEAN :
         /\ gets' = Append(gets, ok)
         /\ IF ok
            THEN \E metrics \in {EmptyDict, [name |-> PStr(<<"Z">>)],
                                 [error |-> Boom]} :
                   returned' = Put(returned, calls[1], [returns |-> PDict(metrics)])
            ELSE returned' = Put(returned, calls[1],
                                 [returns |-> PDict(ExceptEntry(Boom))])
    /\ pc' = "collector_idle"
    /\ UNCHANGED <<queries, sessions, closes, scope, max_retries, navigated>>
    /\ UNCHANGED <<company_name, progress_callback, i, all_data, scraped_sources,
                   successful_sources, calls, progress, clock, result, run_year>>

NextRetry ==
    StartNavigate \/ NavigateGet \/ NavigateGiveUp \/ LoadSearch \/ ReturnNotFound
    \/ FollowLink

SpecRetry == InitRetry /\ [][NextRetry]_vars

(***************************************************************************)
(* Properties of get_comprehensive_data                                    *)
(***************************************************************************)
Last(s) == s[Len(s)]

Fields(r) == DOMAIN r.dict

Meta(r) == r.dict["metadata"].dict

\* the collector raised, or returned a result carrying an error marker
FailedOutcome(o) ==
    Raises(o) \/ (IsDict(o.returns) /\ "error" \in DOMAIN o.returns.dict)

Invoked == Range(calls)

\* C1: when the call has returned, every collector that raised or returned
\* an error result is recorded as an error entry of its own source, and every
\* collector registered after it was still executed and its result collected.
C1_FailureIsolated ==
    pc = "returned" =>
        \A j \in 1..total_sources :
            (scrapers[j] \in Invoked /\ FailedOutcome(returned[scrapers[j]])) =>
                /\ "error" \in DOMAIN all_data[scrapers[j]]
                /\ \A k \in (j + 1)..total_sources :
                       /\ scrapers[k] \in Invoked
                       /\ all_data[scrapers[k]] = Collected(returned[scrapers[k]])

\* C2: a call with an empty or whitespace-only company name invokes no
\* collector and returns no record.
C2_EmptyNameRejected ==
    Strip(company_name) = <<>> => (calls = <<>> /\ pc # "returned")

\* every collector failed: each one raised or returned an error result, or
\* was not reached because the exception of its iteration came earlier
AllFailed ==
    \A s \in Range(scrapers) : s \in Invoked => FailedOutcome(returned[s])

\* C3: if every registered collector fails, the call still returns a record,
\* holding only name and metadata, with successful_sources = 0 and
\* total_sources = the number of registered collectors.
C3_AllFailedRecord ==
    (pc = "returned" /\ AllFailed) =>
        /\ IsDict(result)
        /\ Fields(result) = {"name", "metadata"}
        /\ result.dict["name"] = company_name
        /\ Meta(result).successful_sources = PInt(0)
        /\ Meta(result).total_sources = PInt(Len(scrapers))

C3_Witness ==
    /\ pc = "returned"
    /\ calls = scrapers
    /\ AllFailed
    /\ \E s \in Invoked : Raises(returned[s])
    /\ \E s \in Invoked :
           ~Raises(returned[s]) /\ "funding_raised" \in DOMAIN returned[s].returns.dict

\* the sources that errored out
Errored == {s \in Range(scrapers) : s \notin Invoked \/ FailedOutcome(returned[s])}

Omit(data_sources, sources) ==
    [s \in DOMAIN data_sources \ sources |-> data_sources[s]]

WithoutMetadata(r) == [k \in Fields(r) \ {"metadata"} |-> r.dict[k]]

\* C5: a source that errors out contributes no field value: the returned
\* record is the merge of the collected mapping with the errored sources
\* omitted.
C5_ErrorContributesNothing ==
    pc = "returned" =>
        WithoutMetadata(result) = _merge_data_sources(Omit(all_data, Errored), company_name)

C5_Witness ==
    /\ pc = "returned"
    /\ \E s \in Invoked :
           /\ ~Raises(returned[s])
           /\ IsDict(returned[s].returns)
           /\ {"error", "funding_raised"} \subseteq DOMAIN returned[s].returns.dict
    /\ \E s \in Invoked : Counted(returned[s])
    /\ "funding_raised" \in Fields(result)

\* C6: on every call each registered collector is invoked exactly once, in
\* registration order, whatever the collectors before it did.
C6_EachCollectorOnce ==
    /\ Len(calls) <= Len(scrapers)
    /\ calls = SubSeq(scrapers, 1, Len(calls))
    /\ pc \in {"merge", "returned"} => calls = scrapers

\* C7 as stated: when the callback has received k/total, at least k
\* collectors have finished.
C7_ProgressAfterCompletion ==
    progress # <<>> => Last(progress).fraction[1] <= Len(calls)

\* C7 as amended: the callback is invoked for a collector before that
\* collector runs: when it receives k/total, the k-th collector has not been
\* called yet and at most k - 1 collectors have finished.
C7_ProgressBeforeCollector ==
    [][Len(progress') = Len(progress) + 1 =>
          LET k == Last(progress').fraction[1] IN
          /\ k \in 1..total_sources
          /\ Last(progress').fraction[2] = total_sources
          /\ scrapers[k] \notin Range(calls')
          /\ Len(calls') <= k - 1]_vars

\* fraction 1 has been reported and the last collector is still to run
C7_Witness ==
    /\ pc = "scrape"
    /\ progress # <<>>
    /\ Last(progress).fraction = <<total_sources, total_sources>>
    /\ Len(calls) = total_sources - 1

\* a/b <= c/d for positive denominators
FracLeq(x, y) == x[1] * y[2] <= y[1] * x[2]

\* C8: within one call the fractions passed to the callback are
\* non-decreasing and each lies in [0, 1].
C8_FractionsMonotone ==
    \A j \in DOMAIN progress :
        /\ progress[j].fraction[2] > 0
        /\ 0 <= progress[j].fraction[1]
        /\ progress[j].fraction[1] <= progress[j].fraction[2]
        /\ j > 1 => FracLeq(progress[j - 1].fraction, progress[j].fraction)

C8_Witness ==
    /\ Len(progress) = total_sources
    /\ Last(progress).fraction = <<total_sources, total_sources>>
    /\ progress[1].fraction = <<1, total_sources>>

\* what a call without a callback collects from the same collector outcomes
Reference(outcomes) == [s \in Range(scrapers) |-> Collected(outcomes[s])]

\* C9: the callback is observational: whatever the callback is, the
\* collectors invoked, the results collected, successful_sources and the
\* fields of the returned record are those of the call without a callback.
C9_CallbackObservational ==
    pc = "returned" =>
        /\ calls = scrapers
        /\ all_data = Reference(returned)
        /\ successful_sources = Cardinality({s \in Range(scrapers) : Counted(returned[s])})
        /\ WithoutMetadata(result) = _merge_data_sources(Reference(returned), company_name)
        /\ Meta(result).successful_sources = PInt(successful_sources)

\* the collector returned a mapping without an error marker
NoErrorMarker(o) ==
    ~Raises(o) /\ IsDict(o.returns) /\ "error" \notin DOMAIN o.returns.dict

MetadataCounts ==
    /\ Meta(result).total_sources = PInt(Len(scrapers))
    /\ IsInt(Meta(result).successful_sources)
    /\ 0 <= Meta(result).successful_sources.int
    /\ Meta(result).successful_sources.int <= Meta(result).total_sources.int

\* C10 as stated: successful_sources is the number of collectors whose
\* result carried no error marker.
C10_CountsNoErrorMarker ==
    pc = "returned" =>
        /\ Meta(result).successful_sources =
               PInt(Cardinality({s \in Invoked : NoErrorMarker(returned[s])}))
        /\ MetadataCounts

\* C10 as amended: successful_sources is the number of collectors that
\* returned a non-empty mapping without an error marker, which is the number
\* of collected entries without an error marker; total_sources is the number
\* of registered collectors, and 0 <= successful_sources <= total_sources.
C10_CountsNonEmptyNoError ==
    pc = "returned" =>
        /\ Meta(result).successful_sources =
               PInt(Cardinality({s \in Invoked :
                       NoErrorMarker(returned[s]) /\ returned[s].returns.dict # EmptyDict}))
        /\ Meta(result).successful_sources =
               PInt(Cardinality({s \in DOMAIN all_data : "error" \notin DOMAIN all_data[s]}))
        /\ MetadataCounts

C10_Witness ==
    /\ pc = "returned"
    /\ \E s \in Invoked : ~Raises(returned[s]) /\ returned[s].returns = PDict(EmptyDict)
    /\ \E s \in Invoked : FailedOutcome(returned[s])
    /\ Meta(result).successful_sources = PInt(2)

(***************************************************************************)
(* Properties of _merge_data_sources                                       *)
(***************************************************************************)
\* the positive numbers the sources report under a key
PositiveReported(data_sources, field) ==
    {Num(v) : v \in {w \in {data_sources[s][field] :
                              s \in {x \in DOMAIN data_sources : field \in DOMAIN data_sources[x]}} :
                       IsNumber(w) /\ Num(w) > 0}}

Greatest(S) == CHOOSE m \in S : \A n \in S : n <= m

\* C4: each numeric field of the merged record is the maximum of the positive
\* values the sources report for it, and is absent if no source reports a
\* positive value.
C4_NumericMaximum ==
    pc = "merged" =>
        \A field \in NumericFields :
            LET reported == PositiveReported(all_data, field) IN
            IF reported = {} THEN field \notin Fields(result)
            ELSE /\ field \in Fields(result)
                 /\ IsNumber(result.dict[field])
                 /\ Num(result.dict[field]) = Greatest(reported)

\* a lower-priority source reports more than a higher-priority one
C4_Witness ==
    /\ pc = "merged"
    /\ HasField(all_data, "crunchbase", "funding_raised")
    /\ HasField(all_data, "web_search", "funding_raised")
    /\ all_data["crunchbase"]["funding_raised"] = PInt(1)
    /\ all_data["web_search"]["funding_raised"] = PInt(MaxAmount)
    /\ result.dict["funding_raised"] = PInt(MaxAmount)

\* the priority order the merge is specified with
ClaimedPriority == <<"crunchbase", "linkedin", "web_search", "simple_web">>

\* a non-empty string once surrounding whitespace is removed
NonBlankText(v) == IsStr(v) /\ Strip(v.str) # <<>>

\* the validity predicate of a first-non-empty field
ValidFor(field, v) ==
    CASE field \in {"ceo", "location"} -> NonBlankText(v)
      [] field = "founded_year" -> IsInt(v) /\ v.int > 1900
      [] field = "website" -> NonBlankText(v) /\ StartsWith(v.str, Chars("http"))

\* the value as the merged record holds it: text without surrounding whitespace
Trimmed(v) == IF IsStr(v) THEN PStr(Strip(v.str)) ELSE v

\* the ranks, in the claimed priority, of the sources with a valid value
ValidRanks(data_sources, field) ==
    {k \in DOMAIN ClaimedPriority :
        /\ HasField(data_sources, ClaimedPriority[k], field)
        /\ ValidFor(field, data_sources[ClaimedPriority[k]][field])}

Least(S) == CHOOSE m \in S : \A n \in S : m <= n

\* C11: each of ceo, founded_year, website, location is the value of the
\* highest-priority source (crunchbase > linkedin > web_search > simple_web)
\* holding a valid value for it; a lower-priority value is used only when
\* every higher-priority source lacks a valid one; absent if no source has one.
C11_FirstValidByPriority ==
    pc = "merged" =>
        \A field \in FirstFields :
            LET ranks == ValidRanks(all_data, field) IN
            IF ranks = {} THEN field \notin Fields(result)
            ELSE /\ field \in Fields(result)
                 /\ result.dict[field] =
                        Trimmed(all_data[ClaimedPriority[Least(ranks)]][field])

\* the highest-priority source has an invalid year, two lower ones differ
C11_Witness ==
    /\ pc = "merged"
    /\ HasField(all_data, "crunchbase", "founded_year")
    /\ HasField(all_data, "linkedin", "founded_year")
    /\ HasField(all_data, "simple_web", "founded_year")
    /\ all_data["crunchbase"]["founded_year"] = PInt(1900)
    /\ all_data["linkedin"]["founded_year"] = PInt(2010)
    /\ all_data["simple_web"]["founded_year"] = PInt(1901)
    /\ result.dict["founded_year"] = PInt(2010)

\* the non-empty descriptions the sources report, whitespace removed
ReportedDescriptions(data_sources) ==
    {Strip(data_sources[s]["description"].str) :
        s \in {x \in DOMAIN data_sources :
                 /\ "description" \in DOMAIN data_sources[x]
                 /\ NonBlankText(data_sources[x]["description"])}}

\* C12: the merged description is the longest non-empty description any
\* source reports, whatever the priority of the source; absent if no source
\* reports a non-empty one.
C12_LongestDescription ==
    pc = "merged" =>
        LET reported == ReportedDescriptions(all_data) IN
        IF reported = {} THEN "description" \notin Fields(result)
        ELSE /\ "description" \in Fields(result)
             /\ IsStr(result.dict["description"])
             /\ result.dict["description"].str \in reported
             /\ \A d \in reported : Len(d) <= Len(result.dict["description"].str)

\* a longer description of a lower-priority source wins
C12_Witness ==
    /\ pc = "merged"
    /\ HasField(all_data, "linkedin", "description")
    /\ HasField(all_data, "web_search", "description")
    /\ all_data["linkedin"]["description"] = PStr(<<"d">>)
    /\ all_data["web_search"]["description"] = PStr(<<"d", "d", "d">>)
    /\ result.dict["description"] = PStr(<<"d", "d", "d">>)

\* the elements of a merged list, whether its order is fixed or not
Members(v) == IF Tag(v) = "unordered" THEN v.unordered ELSE Range(v.list)

NoDuplicates(v) ==
    Tag(v) = "unordered" \/ Cardinality(Range(v.list)) = Len(v.list)

\* the sources that report a non-empty list under a key
ListSources(data_sources, field) ==
    {s \in DOMAIN data_sources :
        /\ field \in DOMAIN data_sources[s]
        /\ IsList(data_sources[s][field])
        /\ data_sources[s][field].list # <<>>}

\* the names the sources report under a key; an empty string is no name
ReportedNames(data_sources, field) ==
    UNION {Range(data_sources[s][field].list) : s \in ListSources(data_sources, field)}
        \ {PStr(<<>>)}

\* C13: the merged founders (investors) are exactly the union of the names
\* in the founders (investors) lists of the sources, each name once.
C13_NamesUnion ==
    pc = "merged" =>
        \A field \in NameFields :
            IF ListSources(all_data, field) = {} THEN field \notin Fields(result)
            ELSE /\ field \in Fields(result)
                 /\ Members(result.dict[field]) = ReportedNames(all_data, field)
                 /\ NoDuplicates(result.dict[field])

\* two sources share a name, one of them lists it twice
C13_Witness ==
    /\ pc = "merged"
    /\ HasField(all_data, "crunchbase", "founders")
    /\ HasField(all_data, "web_search", "founders")
    /\ all_data["crunchbase"]["founders"] = PList(<<PStr(<<"B", "o">>), PStr(<<"B", "o">>)>>)
    /\ all_data["web_search"]["founders"] = PList(<<PStr(<<"A", "l">>), PStr(<<"B", "o">>)>>)
    /\ result.dict["founders"] = PUnordered({PStr(<<"A", "l">>), PStr(<<"B", "o">>)})

\* C14: merged founders and investors hold no empty and no whitespace-only
\* string, whatever strings the sources report.
C14_NoBlankNames ==
    pc = "merged" =>
        \A field \in NameFields :
            field \in Fields(result) =>
                \A n \in Members(result.dict[field]) : IsStr(n) => Strip(n.str) # <<>>

\* a key a round entry lacks
Missing == [missing |-> TRUE]

Amount(r) == Get(r.dict, "amount", Missing)

Type(r) == Get(r.dict, "type", Missing)

\* Python's ==: numbers by value, anything else by identity of value
PyEq(a, b) == IF IsNumber(a) /\ IsNumber(b) THEN Num(a) = Num(b) ELSE a = b

SamePair(r1, r2) == PyEq(Amount(r1), Amount(r2)) /\ PyEq(Type(r1), Type(r2))

\* the round entries the sources report
ReportedRounds(data_sources) ==
    {r \in UNION {Range(data_sources[s]["funding_rounds"].list) :
                    s \in ListSources(data_sources, "funding_rounds")} : IsDict(r)}

\* C15: merged funding_rounds is the union of the reported rounds, one entry
\* per (amount, type) pair: no two entries agree in amount and in type.
C15_RoundsUniqueByPair ==
    (pc = "merged" /\ "funding_rounds" \in Fields(result)) =>
        LET rounds == result.dict["funding_rounds"].list IN
        /\ \A j, k \in DOMAIN rounds : j # k => ~SamePair(rounds[j], rounds[k])
        /\ \A r \in ReportedRounds(all_data) : \E k \in DOMAIN rounds : SamePair(r, rounds[k])
        /\ Range(rounds) \subseteq ReportedRounds(all_data)

\* an entry says something: it has an amount or a type
Informative(r) ==
    \/ ("amount" \in DOMAIN r.dict /\ ~IsNone(r.dict["amount"]))
    \/ ("type" \in DOMAIN r.dict /\ ~IsNone(r.dict["type"]))

\* C16: merged funding_rounds never holds an entry with neither amount nor
\* type.
C16_UninformativeRoundsDropped ==
    (pc = "merged" /\ "funding_rounds" \in Fields(result)) =>
        \A r \in Range(result.dict["funding_rounds"].list) : Informative(r)

(***************************************************************************)
(* C17: the merged record's name equals the company_name argument          *)
(* verbatim, whatever value any source reported under the key name.        *)
(***************************************************************************)
C17_NameVerbatim ==
    pc = "returned" => result.dict["name"] = company_name

\* a run on a name of one blank, in which a counted source reported name "Z"
C17_Witness ==
    /\ pc = "returned"
    /\ company_name = <<" ">>
    /\ \E s \in DOMAIN all_data :
           /\ "name" \in DOMAIN all_data[s]
           /\ all_data[s]["name"] = PStr(<<"Z">>)
    /\ result.dict["name"] = <<" ">>

(***************************************************************************)
(* C18: company_age equals current_year - founded_year whenever            *)
(* founded_year is present in the merged record, current_year being the    *)
(* year in which the run happens, and company_age is absent whenever       *)
(* founded_year is absent.                                                 *)
(***************************************************************************)
C18_AgeFromRunYear ==
    pc = "merged" =>
        LET d == result.dict IN
        IF "founded_year" \in DOMAIN d
        THEN /\ "company_age" \in DOMAIN d
             /\ d["company_age"] = PInt(run_year - d["founded_year"].int)
        ELSE "company_age" \notin DOMAIN d

(***************************************************************************)
(* C19: funding_stage is bucketed from the merged funding_raised with      *)
(* inclusive-low/exclusive-high thresholds: <1M Pre-Seed, <5M Seed, <20M   *)
(* Series A, <50M Series B, <100M Series C+, >=100M Late Stage; it is      *)
(* absent if and only if funding_raised is absent.                         *)
(***************************************************************************)
StageBucket(f) ==
    CASE f < 1000000 -> Lit("Pre-Seed")
      [] 1000000 <= f /\ f < 5000000 -> Lit("Seed")
      [] 5000000 <= f /\ f < 20000000 -> Lit("Series A")
      [] 20000000 <= f /\ f < 50000000 -> Lit("Series B")
      [] 50000000 <= f /\ f < 100000000 -> Lit("Series C+")
      [] 100000000 <= f -> Lit("Late Stage")

C19_FundingStageBuckets ==
    pc = "merged" =>
        LET d == result.dict IN
        /\ "funding_stage" \in DOMAIN d <=> "funding_raised" \in DOMAIN d
        /\ "funding_raised" \in DOMAIN d =>
               d["funding_stage"] = StageBucket(Num(d["funding_raised"]))

\* a merge whose greatest funding_raised is exactly 5,000,000
C19_Witness ==
    /\ pc = "merged"
    /\ "funding_raised" \in Fields(result)
    /\ Num(result.dict["funding_raised"]) = 5000000
    /\ result.dict["funding_stage"] = Lit("Series A")

(***************************************************************************)
(* C20: employee_size is bucketed from the merged employees count: <10     *)
(* Startup, <50 Small, <200 Medium, <1000 Large, otherwise Enterprise; it  *)
(* is absent if and only if employees is absent.                           *)
(***************************************************************************)
SizeBucket(e) ==
    CASE e < 10 -> 1
      [] 10 <= e /\ e < 50 -> 2
      [] 50 <= e /\ e < 200 -> 3
      [] 200 <= e /\ e < 1000 -> 4
      [] 1000 <= e -> 5

\* the labels as the claim words them
BareLabels ==
    <<PStr(<<"S", "t", "a", "r", "t", "u", "p">>),
      PStr(<<"S", "m", "a", "l", "l">>),
      PStr(<<"M", "e", "d", "i", "u", "m">>),
      PStr(<<"L", "a", "r", "g", "e">>),
      PStr(<<"E", "n", "t", "e", "r", "p", "r", "i", "s", "e">>)>>

\* the labels with the range each one stands for
RangeLabels ==
    <<Lit("Startup (1-9)"), Lit("Small (10-49)"), Lit("Medium (50-199)"),
      Lit("Large (200-999)"), Lit("Enterprise (1000+)")>>

\* C20 as stated: the label is the bare word
C20_EmployeeSizeBare ==
    pc = "merged" =>
        LET d == result.dict IN
        /\ "employee_size" \in DOMAIN d <=> "employees" \in DOMAIN d
        /\ "employees" \in DOMAIN d =>
               d["employee_size"] = BareLabels[SizeBucket(Num(d["employees"]))]

\* C20 amended: the same buckets, the label being the word followed by its
\* range: "Startup (1-9)", "Small (10-49)", "Medium (50-199)",
\* "Large (200-999)", "Enterprise (1000+)"
C20_EmployeeSizeRanged ==
    pc = "merged" =>
        LET d == result.dict IN
        /\ "employee_size" \in DOMAIN d <=> "employees" \in DOMAIN d
        /\ "employees" \in DOMAIN d =>
               d["employee_size"] = RangeLabels[SizeBucket(Num(d["employees"]))]

\* a merge of employees = 40
C20_Witness ==
    /\ pc = "merged"
    /\ "employees" \in Fields(result)
    /\ result.dict["employees"] = PInt(40)
    /\ result.dict["employee_size"] = Lit("Small (10-49)")

(***************************************************************************)
(* C21: in every merged record, founded_year, if present, is greater than  *)
(* 1900 and not greater than the current year, whatever years the sources  *)
(* reported.                                                               *)
(***************************************************************************)
C21_FoundedYearInRange ==
    (pc = "merged" /\ "founded_year" \in Fields(result)) =>
        LET year == result.dict["founded_year"] IN
        /\ IsInt(year)
        /\ year.int > 1900
        /\ year.int <= run_year

Reporting == {s \in DOMAIN all_data : "error" \notin DOMAIN all_data[s]}

EmptyReturn(o) == ~Raises(o) /\ o.returns \in {PNone, PDict(EmptyDict)}

C27_EmptyReturnIsError ==
    /\ \A s \in DOMAIN returned :
           EmptyReturn(returned[s]) =>
               s \in DOMAIN all_data /\ DOMAIN all_data[s] = {"error"}
    /\ successful_sources <=
           Cardinality({s \in DOMAIN returned :
                            ~Raises(returned[s]) /\ ~EmptyReturn(returned[s])})
    /\ pc \in {"progress", "scrape"} =>
           i < total_sources /\ scraped_sources = SubSeq(scrapers, 1, i)
    /\ pc \in {"merge", "returned"} =>
           scraped_sources = scrapers /\ DOMAIN all_data = Range(scrapers)
    /\ pc = "returned" =>
           Meta(result).scraped_sources =
               PList([k \in 1..total_sources |-> Lit(scrapers[k])])

\* a run in which one collector returned None, another an empty mapping, and
\* the last one, called after them, was counted
C27_Witness ==
    /\ pc = "returned"
    /\ \E s \in Invoked : ~Raises(returned[s]) /\ returned[s].returns = PNone
    /\ \E s \in Invoked : ~Raises(returned[s]) /\ returned[s].returns = PDict(EmptyDict)
    /\ Last(scrapers) \in Invoked
    /\ "error" \notin DOMAIN all_data[Last(scrapers)]
    /\ successful_sources = 1

(***************************************************************************)
(* C28: the merged funding_raised (and hence funding_stage) depends only   *)
(* on the sources' funding_raised key: the amount that the registered      *)
(* crunchbase collector stores under total_funding never influences any    *)
(* field of the merged record, which is the same with that value present,  *)
(* changed or removed.                                                     *)
(***************************************************************************)
\* the sources reporting the merged funding_raised under the key funding_raised
FundingReporters(data_sources, merged) ==
    {s \in DOMAIN data_sources :
         /\ "funding_raised" \in DOMAIN data_sources[s]
         /\ data_sources[s]["funding_raised"] = merged.dict["funding_raised"]}

C28_TotalFundingIgnored ==
    [][(pc = "reinserted" /\ pc' = "remerged") =>
           /\ result' = result
           /\ "funding_stage" \in Fields(result') <=> "funding_raised" \in Fields(result')
           /\ "funding_raised" \in Fields(result') =>
                  FundingReporters(all_data', result') # {}]_vars

\* crunchbase's page carried a total funding of 5,000,000 in one of the two
\* merges and none or another in the other, and no merged funding comes from it
C28_Witness ==
    /\ pc = "remerged"
    /\ "total_funding" \in DOMAIN returned["crunchbase"].returns.dict
    /\ returned["crunchbase"].returns.dict["total_funding"] = PFloat(5000000)
    /\ "total_funding" \in DOMAIN all_data["crunchbase"]
    /\ "web_search" \in DOMAIN all_data
    /\ "funding_raised" \in DOMAIN all_data["web_search"]
    /\ result.dict["funding_raised"] = PFloat(2000000)
    /\ result.dict["funding_stage"] = Lit("Seed")

(***************************************************************************)
(* C23: every registered collector, when its source is unreachable or no   *)
(* matching entity is found (for the search-based collectors: when every   *)
(* one of its queries fails or returns nothing), returns an error result   *)
(* {error: reason} rather than a success record, so that the Aggregator    *)
(* does not count that source as successful.                               *)
(***************************************************************************)
\* every query of the collector raised or extracted nothing
FoundNothing(source_name) ==
    \A q \in 1..QueryCount :
        \/ Raises(queries[source_name][q])
        \/ queries[source_name][q].extracted = EmptyDict

C23_FailureIsErrorResult ==
    \A s \in SearchCollectors \cap DOMAIN returned :
        FoundNothing(s) =>
            /\ "error" \in DOMAIN returned[s].returns.dict
            /\ "error" \in DOMAIN all_data[s]

(***************************************************************************)
(* C25: WebSearchScraper.search_company_data returns a non-empty record    *)
(* whose name equals the queried company name, for every combination of    *)
(* success and failure of its individual search queries.                   *)
(***************************************************************************)
C25_SearchReturnsNamedRecord ==
    "web_search" \in DOMAIN returned =>
        LET o == returned["web_search"] IN
        /\ ~Raises(o)
        /\ IsDict(o.returns)
        /\ o.returns.dict # EmptyDict
        /\ "name" \in DOMAIN o.returns.dict
        /\ o.returns.dict["name"] = PStr(company_name)

\* web_search was called on " ", every one of its queries raised
C25_Witness ==
    /\ "web_search" \in DOMAIN returned
    /\ company_name = <<" ">>
    /\ queries["web_search"] = AllRaise
    /\ returned["web_search"].returns = PDict([name |-> PStr(<<" ">>)])

(***************************************************************************)
(* C29: the web_search and simple_web collectors return every field other  *)
(* than funding_raised, revenue and market_cap as a list (including a      *)
(* single ceo or a single employees count); since merge accepts ceo only   *)
(* as a string and employees only as a number, a ceo or employees value    *)
(* found only by these two collectors never appears in the record returned *)
(* by get_comprehensive_data.                                              *)
(***************************************************************************)
\* the record a search collector returned: the queried name, numbers under
\* the three financial keys, a list under every other key
ListsExceptFinancial(record) ==
    \A k \in DOMAIN record :
        CASE k = "name" -> IsStr(record[k])
          [] k \in {"funding_raised", "revenue", "market_cap"} -> IsNumber(record[k])
          [] OTHER -> IsList(record[k])

C29_SearchedCeoEmployeesLost ==
    /\ \A s \in SearchCollectors \cap DOMAIN returned :
           ListsExceptFinancial(returned[s].returns.dict)
    /\ pc = "returned" =>
           Fields(result) \cap {"ceo", "employees", "employee_size"} = {}

\* a search collector found a ceo and an employees count, returned each as a
\* list of one value, and the returned record has neither
C29_Witness ==
    /\ pc = "returned"
    /\ \E s \in SearchCollectors :
           /\ {"ceo", "employees"} \subseteq DOMAIN all_data[s]
           /\ all_data[s]["ceo"] = PList(<<PStr(<<"B", "o">>)>>)
           /\ all_data[s]["employees"] = PList(<<PInt(40)>>)
    /\ "ceo" \notin Fields(result)
    /\ "employees" \notin Fields(result)

(***************************************************************************)
(* C24: when a CompanyDataAggregator is used as a scoped resource          *)
(* (with-block), every registered collector's browser or network session   *)
(* is released when the scope is left, on the success path and on the      *)
(* failure path alike; no collector session created by the aggregator      *)
(* remains open afterwards.                                                *)
(***************************************************************************)
C24_SessionsReleased ==
    pc = "left" => \A s \in DOMAIN sessions : sessions[s] = "closed"

(***************************************************************************)
(* C30: close_all_scrapers attempts close() on every registered scraper    *)
(* exactly once even when the close of an earlier scraper raises (or a     *)
(* scraper has no close operation), and it never raises to its caller.     *)
(***************************************************************************)
C30_CloseAllAttemptsEach ==
    /\ pc # "close_raised"
    /\ \A k \in DOMAIN closes :
           closes[k].scraper = scrapers[((k - 1) % total_sources) + 1]
    /\ pc \in {"in_scope", "left"} => Len(closes) % total_sources = 0
    /\ pc = "left" => Len(closes) >= total_sources
    /\ pc = "closing" => scope # "none"

\* the scope was left after a call in which the close of the first scraper
\* raised and the last scraper had no close
C30_Witness ==
    /\ pc = "left"
    /\ Len(closes) = total_sources
    /\ closes[1].raised
    /\ ~closes[2].raised
    /\ closes[total_sources] = [scraper |-> "simple_web", raised |-> TRUE]

(***************************************************************************)
(* C26: a collector's internal retry is bounded and stops on a definitive  *)
(* outcome: navigate_with_retry performs at most max_retries navigation    *)
(* attempts, returns success at the first attempt that succeeds without    *)
(* attempting again, and returns failure after the last failed attempt; a  *)
(* collector that reaches a definitive "not found" outcome returns its     *)
(* error result without retrying.                                          *)
(***************************************************************************)
\* every attempt but the last one failed
FailedBeforeLast(attempts) ==
    \A k \in DOMAIN attempts : k < Len(attempts) => ~attempts[k]

C26_RetryBounded ==
    /\ \A n \in DOMAIN navigated :
           LET call == navigated[n] IN
           /\ Len(call.attempts) <= call.max_retries
           /\ FailedBeforeLast(call.attempts)
           /\ call.result =>
                  call.attempts # <<>> /\ Last(call.attempts)
           /\ ~call.result =>
                  /\ Len(call.attempts) = call.max_retries
                  /\ \A k \in DOMAIN call.attempts : ~call.attempts[k]
    /\ pc = "navigating" =>
           Len(gets) <= max_retries /\ \A k \in DOMAIN gets : ~gets[k]
    /\ \A s \in LinkCollectors \cap DOMAIN returned :
           returned[s].returns \in NotFound(s) => gets = <<TRUE>>

\* web_search ran a query that succeeded at the third attempt and a query
\* whose three attempts all failed
C26_Witness ==
    /\ calls = <<"web_search">>
    /\ pc = "collector_idle"
    /\ \E n \in DOMAIN navigated :
           navigated[n] = [max_retries |-> 3, attempts |-> <<FALSE, FALSE, TRUE>>,
                           result |-> TRUE]
    /\ \E n \in DOMAIN navigated :
           navigated[n] = [max_retries |-> 3, attempts |-> <<FALSE, FALSE, FALSE>>,
                           result |-> FALSE]

====
